---------------------------- MODULE Spec2Model ----------------------------
(***************************************************************************)
(* Model of the Pi-hole V6 API client (custom_components/pi_hole_v6):      *)
(* api.py (class API) and exceptions.py (handle_status).                   *)
(*                                                                         *)
(* A task is a coroutine started by a caller on one client instance.  Its  *)
(* call stack is a sequence of frames, one per call_X method together with *)
(* the _call it awaits.  The only real suspension point of the code is the *)
(* HTTP request inside _call; between two suspension points a task runs    *)
(* alone (cooperative scheduling), which the variable running records.     *)
(***************************************************************************)
EXTENDS Integers, Sequences, FiniteSets, TLC

VARIABLES
    sid,            \* API._sid of each instance (None when logged out)
    cache_blocking, \* API.cache_blocking as seen by each instance
    cache_padd,     \* API.cache_padd as seen by each instance
    cache_summary,  \* API.cache_summary as seen by each instance
    cache_groups,   \* API.cache_groups: the one class-level dict object
    stack,          \* call stack of each task
    inst,           \* the instance each task's current call is made on
    running,        \* the task the event loop is running, or NoTask
    wire,           \* the HTTP requests each task's current call has sent
    before,         \* tokens and caches as they were when the call started
    ncalls,         \* number of public calls made so far
    args,           \* the arguments of each task's current call
    log,            \* the diagnostic entries each task's current call has logged
    listed,         \* history: the comment the latest list of groups gave each name
    status_code,    \* input of the status classification under SpecStatus
    status_result,  \* its outcome
    unique_id,      \* entity_entry.unique_id of one entity of the registry
    original,       \* history: that unique ID before any migration
    returned        \* history: what update_unique_id returned, pass by pass

vars == <<sid, cache_blocking, cache_padd, cache_summary, cache_groups,
          stack, inst, running, wire, before, ncalls, args, log, listed,
          status_code, status_result, unique_id, original, returned>>

clientVars == <<sid, cache_blocking, cache_padd, cache_summary, cache_groups,
                stack, inst, running, wire, before, ncalls, args, log, listed>>

---------------------------------------------------------------------------
(* Bounds of the model *)

MaxCalls == 3
MaxStatus == 600
MaxIdLen == 4
MaxPasses == 2

(* Values *)

Instances == {"A", "B"}
Tasks == {"t1", "t2"}
NoTask == "none"
None == "None"
Sids == {"s1", "s2"}
Payloads == {"p1"}
GroupNames == {"g1", "g2"}
Comments == {"c1", "c2"}
Durations == {<<>>, <<30>>}

EmptyMap == [k \in {} |-> k]

AuthBody(s, v) == [session |-> [sid |-> s, valid |-> v]]
PayloadBody(p) == [payload |-> p]
GroupsBody(gs) == [groups |-> gs]
GroupEntry(n, c, e) == [name |-> n, comment |-> c, enabled |-> e]

NoException == "none"

Raise(kind, code) ==
    [exc |-> kind, code |-> code, reason |-> "", data |-> EmptyMap]

---------------------------------------------------------------------------
(* exceptions.py *)

exception_map ==
    [c \in {400, 401, 402, 403, 404, 429, 500, 502, 503, 504} |->
        CASE c = 400 -> "BadRequestException"
          [] c = 401 -> "UnauthorizedException"
          [] c = 402 -> "RequestFailedException"
          [] c = 403 -> "ForbiddenException"
          [] c = 404 -> "NotFoundException"
          [] c = 429 -> "TooManyRequestsException"
          [] c = 500 -> "ServerErrorException"
          [] c = 502 -> "BadGatewayException"
          [] c = 503 -> "ServiceUnavailableException"
          [] c = 504 -> "GatewayTimeoutException"]

handle_status_swapped(s) ==
    IF s < 400 THEN [exc |-> NoException, code |-> 0]
    ELSE IF s = 403 THEN [exc |-> "UnauthorizedException", code |-> 0]
    ELSE IF s \in DOMAIN exception_map
         THEN [exc |-> exception_map[s], code |-> 0]
    ELSE [exc |-> "NotImplementedError", code |-> s]

\* handle_status: the exception raised for a status code, NoException when
\* it returns; NotImplementedError carries the code in its message.
handle_status(s) ==
    IF s < 400 THEN [exc |-> NoException, code |-> 0]
    ELSE IF s \in DOMAIN exception_map
         THEN [exc |-> exception_map[s], code |-> 0]
    ELSE [exc |-> "NotImplementedError", code |-> s]

---------------------------------------------------------------------------
(* api.py: construction *)

\* API.__init__: url and password of each instance
url == [i \in Instances |-> IF i = "A" THEN "http://a/api" ELSE "http://b/api"]
password == [i \in Instances |-> IF i = "A" THEN "pwA" ELSE "pwB"]

duration_default == 120

NoData == EmptyMap

Methods ==
    {"call_authentification_status", "call_login", "call_logout",
     "call_summary", "call_padd", "call_blocking_status",
     "call_blocking_enabled", "call_blocking_disabled", "call_get_groups",
     "call_group_disable", "call_group_enable"}

GroupMethods == {"call_group_disable", "call_group_enable"}

\* The arguments a caller passes; duration_given = FALSE leaves the
\* parameter of call_blocking_disabled to its default.
NoArg == [group |-> "", duration |-> <<>>, duration_given |-> FALSE, full |-> TRUE]

Args(fn) ==
    CASE fn = "call_padd" -> {[NoArg EXCEPT !.full = b] : b \in BOOLEAN}
      [] fn = "call_blocking_disabled" ->
            {NoArg} \cup {[NoArg EXCEPT !.duration = d, !.duration_given = TRUE] :
                            d \in Durations}
      [] fn \in GroupMethods -> {[NoArg EXCEPT !.group = g] : g \in GroupNames}
      [] OTHER -> {NoArg}

Duration_default_for_none(arg) ==
    IF arg.duration_given /\ arg.duration # <<>> THEN arg.duration
    ELSE <<duration_default>>

\* call_blocking_disabled, line 347: the value of the parameter duration
Duration(arg) ==
    IF arg.duration_given THEN arg.duration ELSE <<duration_default>>

\* self.cache_groups: no method ever binds the attribute on the instance,
\* so every instance reads and mutates the class-level dict.
self_cache_groups(i) == cache_groups

\* An answer of the transport: an error it raises, or a response with its
\* status, reason, text and the outcome of parsing it.
Answer(err, status, text, json_ok, body) ==
    [err |-> err, status |-> status, reason |-> "reason", text |-> text,
     json_ok |-> json_ok, body |-> body]

NoAnswer == Answer("pending", 0, "", FALSE, EmptyMap)

\* The frame of one call_X method, up to its await of self._call(...):
\* the action, method, route and data it passes.
Frame(fn, action, method, route, data) ==
    [fn |-> fn, action |-> action, method |-> method, route |-> route,
     data |-> data, pc |-> "check", answer |-> NoAnswer,
     ret |-> Raise(NoException, 0)]

call_authentification_status ==
    Frame("call_authentification_status", "authentification_status", "GET",
          <<"/auth">>, NoData)

call_login(i) ==
    Frame("call_login", "login", "POST", <<"/auth">>, [password |-> password[i]])

call_logout == Frame("call_logout", "logout", "DELETE", <<"/auth">>, NoData)

call_summary == Frame("call_summary", "summary", "GET", <<"/stats/summary">>, NoData)

call_padd(full) ==
    Frame("call_padd", "padd", "GET",
          <<"/padd?full=", IF full THEN "true" ELSE "false">>, NoData)

call_blocking_status ==
    Frame("call_blocking_status", "blocking_status", "GET", <<"/dns/blocking">>, NoData)

call_blocking_enabled ==
    Frame("call_blocking_enabled", "blocking_enabled", "POST", <<"/dns/blocking">>,
          [blocking |-> TRUE, timer |-> <<>>])

call_blocking_disabled(duration) ==
    Frame("call_blocking_disabled", "blocking_disabled", "POST", <<"/dns/blocking">>,
          [blocking |-> FALSE, timer |-> duration])

call_get_groups == Frame("call_get_groups", "groups", "GET", <<"/groups">>, NoData)

\* Both group methods pass action="group-disable".
call_group_disable(i, group) ==
    Frame("call_group_disable", "group-disable", "PUT", <<"/groups/", group>>,
          [name |-> group, comment |-> self_cache_groups(i)[group].comment,
           enabled |-> FALSE])

call_group_enable(i, group) ==
    Frame("call_group_enable", "group-disable", "PUT", <<"/groups/", group>>,
          [name |-> group, comment |-> self_cache_groups(i)[group].comment,
           enabled |-> TRUE])

NewFrame(fn, arg, i) ==
    CASE fn = "call_authentification_status" -> call_authentification_status
      [] fn = "call_login" -> call_login(i)
      [] fn = "call_logout" -> call_logout
      [] fn = "call_summary" -> call_summary
      [] fn = "call_padd" -> call_padd(arg.full)
      [] fn = "call_blocking_status" -> call_blocking_status
      [] fn = "call_blocking_enabled" -> call_blocking_enabled
      [] fn = "call_blocking_disabled" -> call_blocking_disabled(Duration(arg))
      [] fn = "call_get_groups" -> call_get_groups
      [] fn = "call_group_disable" -> call_group_disable(i, arg.group)
      [] fn = "call_group_enable" -> call_group_enable(i, arg.group)

\* Evaluating the data argument of a group method reads
\* self.cache_groups[group]["comment"]: KeyError for an unknown group.
ArgumentError(fn, arg, i) ==
    fn \in GroupMethods /\ arg.group \notin DOMAIN self_cache_groups(i)

RaisedBeforeCall_in_call(fn) == Frame(fn, "group-disable", "PUT", <<>>, NoData)

\* The KeyError is raised while the arguments of self._call(...) are
\* evaluated: the method ends with it and _call is never entered.
RaisedBeforeCall(fn) ==
    [Frame(fn, "", "", <<>>, NoData) EXCEPT !.pc = "done", !.ret = Raise("KeyError", 0)]

---------------------------------------------------------------------------
(* What the server or the transport may answer *)

HttpStatuses == {200, 204, 401, 403, 418}
TransportErrors == {"TimeoutError", "ClientError", "GaiError"}

\* The group lists a server may send: group g1 with any comment and flag,
\* or absent, and a second group g2, present or absent.
GroupLists ==
    {<<>>, <<GroupEntry("g2", "c1", TRUE)>>}
    \cup {<<GroupEntry("g1", c, e)>> : c \in Comments, e \in BOOLEAN}
    \cup {<<GroupEntry("g1", c, e), GroupEntry("g2", "c1", TRUE)>> :
            c \in Comments, e \in BOOLEAN}

\* The parsed bodies of the endpoint an action addresses (section 6 of the
\* wire protocol).
BodiesFor(action) ==
    CASE action = "login" -> {AuthBody(s, TRUE) : s \in Sids}
      [] action \in {"authentification_status", "logout"} ->
            {AuthBody(None, v) : v \in BOOLEAN}
      [] action = "groups" -> {GroupsBody(gs) : gs \in GroupLists}
      [] OTHER -> {PayloadBody(p) : p \in Payloads}

Responses(action) ==
    {Answer(e, 0, "", FALSE, EmptyMap) : e \in TransportErrors}
    \cup {Answer("none", st, "", TRUE, EmptyMap) : st \in HttpStatuses}
    \cup {Answer("none", st, "text", FALSE, EmptyMap) : st \in HttpStatuses}
    \cup {Answer("none", 200, "text", TRUE, b) : b \in BodiesFor(action)}
    \cup {Answer("none", 204, "text", TRUE, b) :
            b \in IF action = "authentification_status" THEN BodiesFor(action) ELSE {}}

---------------------------------------------------------------------------
(* api.py: _call and the call_X methods *)

Top(t) == stack[t][Len(stack[t])]
Last(w) == w[Len(w)]
SetTop(t, f) == [stack EXCEPT ![t] = [@ EXCEPT ![Len(@)] = f]]
Push(t, f, child) == [stack EXCEPT ![t] = Append([@ EXCEPT ![Len(@)] = f], child)]

Put(m, k, v) == [x \in DOMAIN m \cup {k} |-> IF x = k THEN v ELSE m[x]]

\* _check_authentification, lines 152-155: whether the validity probe is run
NeedsProbe(action, s) ==
    action \notin {"login", "authentification_status"} /\ s # None

NeedsLogin_not_for_status(action, s) ==
    action \notin {"login", "authentification_status"} /\ s = None

NeedsLogin_not_for_logout(action, s) ==
    action \notin {"login", "logout"} /\ s = None

\* _request_login, line 170: whether call_login is run
NeedsLogin(action, s) == action # "login" /\ s = None

Headers_sid_always(s) ==
    [accept |-> "application/json", content_type |-> "application/json", sid |-> s]

\* _call, lines 96-102: the headers of the request
Headers(s) ==
    IF s # None
    THEN [accept |-> "application/json", content_type |-> "application/json", sid |-> s]
    ELSE [accept |-> "application/json", content_type |-> "application/json"]

\* hashlib.sha256(...).hexdigest(): a digest per token, none of them a token
sha256_identity == [s \in Sids |-> s]

sha256 == [s \in Sids |-> IF s = "s1" THEN "digest1" ELSE "digest2"]

\* _get_sid_hash, lines 176-179: it reads self._sid, not its parameter
get_sid_hash(s) == IF s # None THEN sha256[s] ELSE None

\* One call of logger.debug(msg, *args), the arguments as they are formatted
LogEntry(msg, a) == [msg |-> msg, args |-> a]

\* _call, lines 92 and 104: the entries logged before the request is sent
RequestLog(f, i) ==
    <<LogEntry("Session ID Hash: %s", <<get_sid_hash(sid[i])>>),
      LogEntry("Request: %s %s", <<f.method>> \o <<url[i]>> \o f.route)>>

\* _call, line 126: the entry logged when a response has arrived
ResponseLog(resp) ==
    IF resp.err # "none" THEN <<>>
    ELSE <<LogEntry("Status Code: %d", <<ToString(resp.status)>>)>>

\* _call, lines 132-135: the deep copy of the parsed body made for the log,
\* the sid of a login response replaced in the copy.  The debug call that
\* would log it (line 137) is commented out.
result_data_debug(body, action) ==
    IF action = "login" THEN [body EXCEPT !.session.sid = "[redacted]"] ELSE body

\* _call, lines 108-119: the request handed to the session; json is passed
\* for post and put only.
Request(f, i) ==
    [method |-> f.method, url |-> <<url[i]>> \o f.route, headers |-> Headers(sid[i]),
     json |-> IF f.method \in {"POST", "PUT"} THEN f.data ELSE NoData,
     action |-> f.action, ret |-> Raise("pending", 0)]

TransportFailure_timeout_uncaught(err) ==
    IF err = "TimeoutError" THEN Raise("TimeoutError", 0)
    ELSE Raise("ClientConnectorException", 0)

\* _call, lines 121-122: what the three errors of the transport become
TransportFailure(err) == Raise("ClientConnectorException", 0)

CallResult_parse_first(resp, action) ==
    IF resp.err # "none" THEN TransportFailure(resp.err)
    ELSE IF resp.text # "" /\ ~resp.json_ok THEN Raise("ContentTypeException", 0)
    ELSE LET hs == handle_status(resp.status) IN
         IF hs.exc # NoException THEN Raise(hs.exc, hs.code)
         ELSE IF action = "login" /\ resp.text # "" /\ "session" \notin DOMAIN resp.body
              THEN Raise("KeyError", 0)
         ELSE [exc |-> NoException, code |-> resp.status,
               reason |-> resp.reason, data |-> resp.body]

\* _call, lines 121-146: the result of _call for an answer
CallResult(resp, action) ==
    IF resp.err # "none" THEN TransportFailure(resp.err)
    ELSE LET hs == handle_status(resp.status) IN
         IF hs.exc # NoException THEN Raise(hs.exc, hs.code)
         ELSE IF resp.status < 400 /\ resp.text # ""
         THEN IF ~resp.json_ok THEN Raise("ContentTypeException", 0)
              ELSE IF action = "login" /\ "session" \notin DOMAIN resp.body
                   THEN Raise("KeyError", 0)
              ELSE [exc |-> NoException, code |-> resp.status,
                    reason |-> resp.reason, data |-> resp.body]
         ELSE [exc |-> NoException, code |-> resp.status,
               reason |-> resp.reason, data |-> EmptyMap]

RECURSIVE StoreGroups_keeps_first(_, _)
StoreGroups_keeps_first(cache, groups) ==
    IF groups = <<>> THEN cache
    ELSE StoreGroups_keeps_first(
            IF Head(groups).name \in DOMAIN cache THEN cache
            ELSE Put(cache, Head(groups).name,
                     GroupEntry(Head(groups).name, Head(groups).comment,
                                Head(groups).enabled)),
            Tail(groups))

\* call_get_groups, lines 392-397
RECURSIVE StoreGroups(_, _)
StoreGroups(cache, groups) ==
    IF groups = <<>> THEN cache
    ELSE StoreGroups(Put(cache, Head(groups).name,
                         GroupEntry(Head(groups).name, Head(groups).comment,
                                    Head(groups).enabled)),
                     Tail(groups))

\* The statements of a call_X method after its _call returned r without
\* raising: the subscript that may raise KeyError.
MethodResult(fn, r) ==
    IF r.exc # NoException THEN r
    ELSE IF fn = "call_login" /\ "session" \notin DOMAIN r.data THEN Raise("KeyError", 0)
    ELSE IF fn = "call_get_groups" /\ "groups" \notin DOMAIN r.data
         THEN Raise("KeyError", 0)
    ELSE r

\* call_login, line 218
LoginSid(r) == r.data.session.sid

\* call_logout, line 242
LogoutSid == None

SidAfter_login_keeps_token(fn, i, out) ==
    IF out.exc # NoException THEN sid
    ELSE IF fn = "call_login"
         THEN IF sid[i] = None THEN [sid EXCEPT ![i] = LoginSid(out)] ELSE sid
    ELSE IF fn = "call_logout" THEN [sid EXCEPT ![i] = LogoutSid]
    ELSE sid

SidAfter_logout_reads_body(fn, i, out) ==
    IF out.exc # NoException THEN sid
    ELSE IF fn = "call_login" THEN [sid EXCEPT ![i] = LoginSid(out)]
    ELSE IF fn = "call_logout"
         THEN IF "session" \in DOMAIN out.data /\ out.data.session.valid
              THEN sid ELSE [sid EXCEPT ![i] = LogoutSid]
    ELSE sid

SidAfter_unauthorized_clears(fn, i, out) ==
    IF out.exc = "UnauthorizedException" THEN [sid EXCEPT ![i] = None]
    ELSE IF out.exc # NoException THEN sid
    ELSE IF fn = "call_login" THEN [sid EXCEPT ![i] = LoginSid(out)]
    ELSE IF fn = "call_logout" THEN [sid EXCEPT ![i] = LogoutSid]
    ELSE sid

\* self._sid after the call_X method ended with out
SidAfter(fn, i, out) ==
    IF out.exc # NoException THEN sid
    ELSE IF fn = "call_login" THEN [sid EXCEPT ![i] = LoginSid(out)]
    ELSE IF fn = "call_logout" THEN [sid EXCEPT ![i] = LogoutSid]
    ELSE sid

CacheAfter_any_method(cache, fns, fn, i, out) ==
    IF out.exc = NoException THEN [cache EXCEPT ![i] = out.data] ELSE cache

\* The cache a call_X method assigns result["data"] to
CacheAfter(cache, fns, fn, i, out) ==
    IF out.exc = NoException /\ fn \in fns THEN [cache EXCEPT ![i] = out.data]
    ELSE cache

GroupsAfter_cleared_by_group_call(fn, i, out) ==
    IF out.exc = NoException /\ fn = "call_get_groups"
    THEN StoreGroups(self_cache_groups(i), out.data.groups)
    ELSE IF out.exc = NoException /\ fn \in GroupMethods THEN EmptyMap
    ELSE cache_groups

\* call_get_groups, lines 392-397; no other method assigns the groups cache
GroupsAfter(fn, i, out) ==
    IF out.exc = NoException /\ fn = "call_get_groups"
    THEN StoreGroups(self_cache_groups(i), out.data.groups)
    ELSE cache_groups

\* The comments a response of GET /groups lists, over those listed before
Listing(old, groups) ==
    LET names == {groups[k].name : k \in 1..Len(groups)} IN
    [n \in DOMAIN old \cup names |->
        IF n \in names
        THEN groups[CHOOSE k \in 1..Len(groups) :
                        /\ groups[k].name = n
                        /\ \A j \in (k + 1)..Len(groups) : groups[j].name # n].comment
        ELSE old[n]]

Idle(t) == stack[t] = <<>>

\* What a caller can observe of the clients: each instance's token and its
\* view of the four caches.
Snapshot ==
    [sid |-> sid, cache_blocking |-> cache_blocking, cache_padd |-> cache_padd,
     cache_summary |-> cache_summary,
     cache_groups |-> [j \in Instances |-> self_cache_groups(j)]]

NoSnapshot == EmptyMap

---------------------------------------------------------------------------
(* Actions *)

statusVars == <<status_code, status_result>>
migrateVars == <<unique_id, original, returned>>
cacheVars == <<cache_blocking, cache_padd, cache_summary, cache_groups>>

\* A caller starts the coroutine call_X(arg) of instance i as task t.  A
\* group method evaluates its data argument first.
Invoke(t, i, fn, arg) ==
    /\ running = NoTask
    /\ Idle(t)
    /\ ncalls < MaxCalls
    /\ ncalls' = ncalls + 1
    /\ inst' = [inst EXCEPT ![t] = i]
    /\ running' = t
    /\ stack' = [stack EXCEPT ![t] =
          IF ArgumentError(fn, arg, i)
          THEN <<RaisedBeforeCall(fn)>>
          ELSE <<NewFrame(fn, arg, i)>>]
    /\ before' = [before EXCEPT ![t] = Snapshot]
    /\ args' = [args EXCEPT ![t] = arg]
    /\ UNCHANGED <<sid, cacheVars, wire, log, listed, statusVars, migrateVars>>

\* _call line 89 and _check_authentification lines 151-156
CheckAuthentification(t) ==
    /\ running = t
    /\ ~Idle(t)
    /\ Top(t).pc = "check"
    /\ stack' = IF NeedsProbe(Top(t).action, sid[inst[t]])
                THEN Push(t, [Top(t) EXCEPT !.pc = "probe_wait"],
                          call_authentification_status)
                ELSE SetTop(t, [Top(t) EXCEPT !.pc = "login"])
    /\ UNCHANGED <<sid, cacheVars, inst, running, wire, before, ncalls, args, log,
                   listed, statusVars, migrateVars>>

\* _call line 90 and _request_login lines 170-171
RequestLogin(t) ==
    /\ running = t
    /\ ~Idle(t)
    /\ Top(t).pc = "login"
    /\ stack' = IF NeedsLogin(Top(t).action, sid[inst[t]])
                THEN Push(t, [Top(t) EXCEPT !.pc = "login_wait"], call_login(inst[t]))
                ELSE SetTop(t, [Top(t) EXCEPT !.pc = "dispatch"])
    /\ UNCHANGED <<sid, cacheVars, inst, running, wire, before, ncalls, args, log,
                   listed, statusVars, migrateVars>>

\* _call lines 92-117: the request is sent and the task is suspended
Dispatch(t) ==
    /\ running = t
    /\ ~Idle(t)
    /\ Top(t).pc = "dispatch"
    /\ wire' = [wire EXCEPT ![t] = Append(@, Request(Top(t), inst[t]))]
    /\ stack' = SetTop(t, [Top(t) EXCEPT !.pc = "http_wait"])
    /\ log' = [log EXCEPT ![t] = @ \o RequestLog(Top(t), inst[t])]
    /\ running' = NoTask
    /\ UNCHANGED <<sid, cacheVars, inst, before, ncalls, args, listed, statusVars, migrateVars>>

\* The answer arrives: _call lines 121-146, then the rest of the call_X
\* method that awaited it.
Response(t) ==
    /\ running = NoTask
    /\ ~Idle(t)
    /\ Top(t).pc = "http_wait"
    /\ \E resp \in Responses(Top(t).action) :
       LET f == Top(t)
           i == inst[t]
           out == MethodResult(f.fn, CallResult(resp, f.action))
       IN /\ sid' = SidAfter(f.fn, i, out)
          /\ cache_summary' = CacheAfter(cache_summary, {"call_summary"}, f.fn, i, out)
          /\ cache_padd' = CacheAfter(cache_padd, {"call_padd"}, f.fn, i, out)
          /\ cache_blocking' =
                CacheAfter(cache_blocking,
                           {"call_blocking_status", "call_blocking_enabled",
                            "call_blocking_disabled"}, f.fn, i, out)
          /\ cache_groups' = GroupsAfter(f.fn, i, out)
          /\ stack' = SetTop(t, [f EXCEPT !.pc = "done", !.answer = resp, !.ret = out])
          /\ wire' = [wire EXCEPT ![t] = [@ EXCEPT ![Len(@)].ret = out]]
          /\ log' = [log EXCEPT ![t] = @ \o ResponseLog(resp)]
          /\ listed' = IF f.fn = "call_get_groups" /\ out.exc = NoException
                        THEN Listing(listed, resp.body.groups)
                        ELSE listed
    /\ running' = t
    /\ UNCHANGED <<inst, before, ncalls, args, statusVars, migrateVars>>

ProbeErrorCaught_forbidden(exc) == exc = "ForbiddenException"

ProbeErrorCaught_connector(exc) ==
    exc \in {"UnauthorizedException", "ClientConnectorException"}

\* _check_authentification, line 164: the exception it catches
ProbeErrorCaught(exc) == exc = "UnauthorizedException"

ProbeInvalid_flag_inverted(response) ==
    response.code # 200 \/ response.data.session.valid = TRUE

\* _check_authentification, lines 158-161 (the subscripts raise KeyError
\* when the body has no session)
ProbeInvalid(response) ==
    response.code # 200 \/ response.data.session.valid = FALSE

ClearedSid_if_still_probed(i, probe) ==
    IF sid[i] = (IF "sid" \in DOMAIN probe.headers THEN probe.headers.sid ELSE None)
    THEN [sid EXCEPT ![i] = None]
    ELSE sid

\* _check_authentification, lines 162 and 165: self._sid = None, whatever
\* token is held by now; probe is the request the probe had sent
ClearedSid(i, probe) == [sid EXCEPT ![i] = None]

AfterProbe_probe_trusted(parent, ret) ==
    IF ret.exc = NoException /\ ~ProbeInvalid(ret)
    THEN [parent EXCEPT !.pc = "dispatch"]
    ELSE [parent EXCEPT !.pc = "login"]

\* _call, lines 89-90: _request_login follows _check_authentification
\* whatever the probe has returned
AfterProbe(parent, ret) == [parent EXCEPT !.pc = "login"]

\* call_authentification_status returned to _check_authentification:
\* lines 158-165
ProbeReturned(t) ==
    /\ running = t
    /\ Len(stack[t]) >= 2
    /\ Top(t).pc = "done"
    /\ stack[t][Len(stack[t]) - 1].pc = "probe_wait"
    /\ LET ret == Top(t).ret
           parent == stack[t][Len(stack[t]) - 1]
           rest == SubSeq(stack[t], 1, Len(stack[t]) - 2)
           i == inst[t]
       IN IF ret.exc = NoException
          THEN IF ret.code = 200 /\ "session" \notin DOMAIN ret.data
               THEN /\ stack' = [stack EXCEPT ![t] =
                          Append(rest, [parent EXCEPT !.pc = "done",
                                                      !.ret = Raise("KeyError", 0)])]
                    /\ sid' = sid
               ELSE /\ stack' = [stack EXCEPT ![t] = Append(rest, AfterProbe(parent, ret))]
                    /\ sid' = IF ProbeInvalid(ret) THEN ClearedSid(i, Last(wire[t]))
                              ELSE sid
          ELSE IF ProbeErrorCaught(ret.exc)
               THEN /\ stack' = [stack EXCEPT ![t] = Append(rest, AfterProbe(parent, ret))]
                    /\ sid' = ClearedSid(i, Last(wire[t]))
               ELSE /\ stack' = [stack EXCEPT ![t] =
                          Append(rest, [parent EXCEPT !.pc = "done", !.ret = ret])]
                    /\ sid' = sid
    /\ UNCHANGED <<cacheVars, inst, running, wire, before, ncalls, args, log,
                   listed, statusVars, migrateVars>>

AfterLogin_error_swallowed(parent, ret) == [parent EXCEPT !.pc = "dispatch"]

AfterLogin_login_retried(parent, ret) ==
    IF ret.exc = NoException
    THEN [parent EXCEPT !.pc = "dispatch"]
    ELSE [parent EXCEPT !.pc = "login"]

\* _request_login, line 171, and _call, line 90: an exception of call_login
\* is not caught, so _call and the method awaiting it end with it
AfterLogin(parent, ret) ==
    IF ret.exc = NoException
    THEN [parent EXCEPT !.pc = "dispatch"]
    ELSE [parent EXCEPT !.pc = "done", !.ret = ret]

\* call_login returned to _request_login
LoginReturned(t) ==
    /\ running = t
    /\ Len(stack[t]) >= 2
    /\ Top(t).pc = "done"
    /\ stack[t][Len(stack[t]) - 1].pc = "login_wait"
    /\ LET ret == Top(t).ret
           parent == stack[t][Len(stack[t]) - 1]
           rest == SubSeq(stack[t], 1, Len(stack[t]) - 2)
       IN stack' = [stack EXCEPT ![t] = Append(rest, AfterLogin(parent, ret))]
    /\ UNCHANGED <<sid, cacheVars, inst, running, wire, before, ncalls, args, log,
                   listed, statusVars, migrateVars>>

\* The outermost call_X returns Top(t).ret to its caller, or raises it
\* there; the task ends.
Return(t) ==
    /\ running = t
    /\ Len(stack[t]) = 1
    /\ Top(t).pc = "done"
    /\ stack' = [stack EXCEPT ![t] = <<>>]
    /\ wire' = [wire EXCEPT ![t] = <<>>]
    /\ before' = [before EXCEPT ![t] = NoSnapshot]
    /\ args' = [args EXCEPT ![t] = NoArg]
    /\ log' = [log EXCEPT ![t] = <<>>]
    /\ running' = NoTask
    /\ UNCHANGED <<sid, cacheVars, inst, ncalls, listed, statusVars, migrateVars>>

---------------------------------------------------------------------------
(* Specifications *)

InitClient ==
    /\ sid = [i \in Instances |-> None]
    /\ cache_blocking = [i \in Instances |-> EmptyMap]
    /\ cache_padd = [i \in Instances |-> EmptyMap]
    /\ cache_summary = [i \in Instances |-> EmptyMap]
    /\ cache_groups = EmptyMap
    /\ stack = [t \in Tasks |-> <<>>]
    /\ inst = [t \in Tasks |-> "A"]
    /\ running = NoTask
    /\ wire = [t \in Tasks |-> <<>>]
    /\ before = [t \in Tasks |-> NoSnapshot]
    /\ ncalls = 0
    /\ args = [t \in Tasks |-> NoArg]
    /\ log = [t \in Tasks |-> <<>>]
    /\ listed = EmptyMap

NotClassified == [exc |-> "pending", code |-> 0]

\* No entity of the registry is looked at
NoEntity ==
    /\ unique_id = <<>>
    /\ original = <<>>
    /\ returned = <<>>

Init ==
    /\ InitClient
    /\ status_code = 0
    /\ status_result = NotClassified
    /\ NoEntity

Step(t) ==
    \/ CheckAuthentification(t)
    \/ RequestLogin(t)
    \/ Dispatch(t)
    \/ Response(t)
    \/ ProbeReturned(t)
    \/ LoginReturned(t)
    \/ Return(t)

\* One caller making its calls one after the other on one client
Next ==
    \/ \E fn \in Methods : \E arg \in Args(fn) : Invoke("t1", "A", fn, arg)
    \/ Step("t1")

Spec == Init /\ [][Next]_vars

\* A caller making its calls one after the other on two clients
MethodsTwo == {"call_login", "call_logout", "call_summary", "call_get_groups"}

NextTwo ==
    \/ \E i \in Instances, fn \in MethodsTwo : Invoke("t1", i, fn, NoArg)
    \/ Step("t1")

SpecTwo == Init /\ [][NextTwo]_vars

\* Callers starting operations on one client as concurrent tasks: a task
\* runs until it awaits its request, and any other task may run or be
\* started before the answer arrives.
MethodsConc == {"call_login", "call_logout", "call_summary"}

NextConc ==
    \/ \E t \in Tasks, fn \in MethodsConc : Invoke(t, "A", fn, NoArg)
    \/ \E t \in Tasks : Step(t)

SpecConc == Init /\ [][NextConc]_vars

\* The same caller as in Spec, with the event loop running a task that can
\* run, and the transport answering every request it was given: the
\* interval of asyncio.timeout(600) ends a request that gets no response.
SpecFair == Init /\ [][Next]_vars /\ WF_vars(Step("t1"))

\* The status classification alone, applied to any status code
InitStatus ==
    /\ InitClient
    /\ status_code \in 0..MaxStatus
    /\ status_result = NotClassified
    /\ NoEntity

Classify ==
    /\ status_result = NotClassified
    /\ status_result' = handle_status(status_code)
    /\ UNCHANGED <<clientVars, status_code, migrateVars>>

SpecStatus == InitStatus /\ [][Classify]_vars

---------------------------------------------------------------------------
(* The unique-ID migration of async_setup_entry *)

\* A unique ID is text, kept here as the sequence of its pieces: the
\* separator, a name or a key of the table, or some other character.  No
\* piece contains the text of another one and no name or key can be put
\* together from other pieces, so two IDs are the same text exactly when
\* they are the same sequence, and a name occurs in an ID exactly where its
\* piece does.
name_to_key ==
    ("Core Update Available" :> "core_update_available")
    @@ ("Web Update Available" :> "web_update_available")
    @@ ("FTL Update Available" :> "ftl_update_available")
    @@ ("Status" :> "status")
    @@ ("Ads Blocked Today" :> "ads_blocked_today")
    @@ ("Ads Percentage Blocked Today" :> "ads_percentage_today")
    @@ ("Seen Clients" :> "clients_ever_seen")
    @@ ("DNS Queries Today" :> "dns_queries_today")
    @@ ("Domains Blocked" :> "domains_being_blocked")
    @@ ("DNS Queries Cached" :> "queries_cached")
    @@ ("DNS Queries Forwarded" :> "queries_forwarded")
    @@ ("DNS Unique Clients" :> "unique_clients")
    @@ ("DNS Unique Domains" :> "unique_domains")

Slash == "/"

\* The pieces the unique IDs of the model are made of: two names of the
\* table with their keys, the separator and one more character.
Pieces == {Slash, "x", "Status", "status", "Seen Clients", "clients_ever_seen"}

RECURSIVE IdsOfLen(_)
IdsOfLen(n) ==
    IF n = 0 THEN {<<>>}
    ELSE {Append(s, c) : s \in IdsOfLen(n - 1), c \in Pieces}

UniqueIds == UNION {IdsOfLen(n) : n \in 0..MaxIdLen}

\* str.split(sep): the parts between the separators, empty ones included
RECURSIVE split(_, _)
split(s, sep) ==
    IF \A k \in 1..Len(s) : s[k] # sep THEN <<s>>
    ELSE LET k == CHOOSE j \in 1..Len(s) :
                      s[j] = sep /\ \A h \in 1..(j - 1) : s[h] # sep
         IN <<SubSeq(s, 1, k - 1)>> \o split(SubSeq(s, k + 1, Len(s)), sep)

\* str.replace(old, new) for a non-empty old: every occurrence of old,
\* found from the left and not overlapping, becomes new
RECURSIVE replace(_, _, _)
replace(s, old, new) ==
    IF Len(s) < Len(old) THEN s
    ELSE IF SubSeq(s, 1, Len(old)) = old
         THEN new \o replace(SubSeq(s, Len(old) + 1, Len(s)), old, new)
         ELSE <<Head(s)>> \o replace(Tail(s), old, new)

\* part in name_to_key: the part is the text of one of the names
InTable(part) == Len(part) = 1 /\ part[1] \in DOMAIN name_to_key

NoUpdate == [new_unique_id |-> <<None>>, update |-> FALSE]
Update(id) == [new_unique_id |-> id, update |-> TRUE]

\* update_unique_id(entity_entry), on the entry's unique ID
update_unique_id(id) ==
    LET unique_id_parts == split(id, Slash) IN
    IF Len(unique_id_parts) = 2 /\ InTable(unique_id_parts[2])
    THEN LET name == unique_id_parts[2]
         IN Update(replace(id, name, <<name_to_key[name[1]]>>))
    ELSE NoUpdate

\* One pass of er.async_migrate_entries over the entity: the callback is
\* applied to the entry, and what it returns, if not None, updates it.  A
\* pass is made each time the config entry is set up.
MigrateEntry ==
    /\ Len(returned) < MaxPasses
    /\ LET updates == update_unique_id(unique_id)
       IN /\ unique_id' = IF updates.update THEN updates.new_unique_id
                           ELSE unique_id
          /\ returned' = Append(returned, updates)
    /\ UNCHANGED <<clientVars, statusVars, original>>

InitMigrate ==
    /\ InitClient
    /\ status_code = 0
    /\ status_result = NotClassified
    /\ unique_id \in UniqueIds
    /\ original = unique_id
    /\ returned = <<>>

SpecMigrate == InitMigrate /\ [][MigrateEntry]_vars

---------------------------------------------------------------------------
(* Properties *)

Active(t) == stack[t] # <<>>
Outer(t) == stack[t][1]
Finished(t) == Len(stack[t]) = 1 /\ stack[t][1].pc = "done"

IsProbe(w, i) == w.method = "GET" /\ w.url = <<url[i], "/auth">>
IsLogin(w, i) ==
    w.method = "POST" /\ w.url = <<url[i], "/auth">> /\ w.json = [password |-> password[i]]
IsTarget(w, f, i) ==
    w.method = f.method /\ w.url = <<url[i]>> \o f.route /\ w.action = f.action

OwnCachesUnchanged(t) ==
    LET i == inst[t] IN
    /\ cache_blocking[i] = before[t].cache_blocking[i]
    /\ cache_padd[i] = before[t].cache_padd[i]
    /\ cache_summary[i] = before[t].cache_summary[i]
    /\ self_cache_groups(i) = before[t].cache_groups[i]

\* C1: handle_status returns for every status code below 400, raises the
\* kind of the table for each of the ten mapped codes, and raises the
\* unimplemented-status error carrying the code for any other code >= 400.
C1_StatusClassification ==
    status_result # NotClassified =>
        /\ status_code < 400 => status_result = [exc |-> NoException, code |-> 0]
        /\ status_code = 400 => status_result.exc = "BadRequestException"
        /\ status_code = 401 => status_result.exc = "UnauthorizedException"
        /\ status_code = 402 => status_result.exc = "RequestFailedException"
        /\ status_code = 403 => status_result.exc = "ForbiddenException"
        /\ status_code = 404 => status_result.exc = "NotFoundException"
        /\ status_code = 429 => status_result.exc = "TooManyRequestsException"
        /\ status_code = 500 => status_result.exc = "ServerErrorException"
        /\ status_code = 502 => status_result.exc = "BadGatewayException"
        /\ status_code = 503 => status_result.exc = "ServiceUnavailableException"
        /\ status_code = 504 => status_result.exc = "GatewayTimeoutException"
        /\ (/\ status_code >= 400
            /\ status_code \notin {400, 401, 402, 403, 404, 429, 500, 502, 503, 504})
           => status_result = [exc |-> "NotImplementedError", code |-> status_code]

C1_Witness ==
    /\ status_code = 403
    /\ status_result.exc = "ForbiddenException"

\* The validity probe returned, with a status other than 200 or with
\* session.valid false.
ProbeSaidInvalid(w) ==
    /\ w.ret.exc = NoException
    /\ \/ w.ret.code # 200
       \/ "session" \in DOMAIN w.ret.data /\ w.ret.data.session.valid = FALSE

C2_Case(t) ==
    /\ Active(t)
    /\ Outer(t).fn \notin {"call_login", "call_authentification_status"}
    /\ before[t].sid[inst[t]] # None
    /\ Len(wire[t]) >= 1
    /\ ProbeSaidInvalid(wire[t][1])

\* C2: an operation other than login and authentication_status, called with
\* a token held, whose probe returns a status other than 200 or an invalid
\* session, sends the probe, then the login, then its own request: the login
\* follows the probe, the target request is sent only after the login has
\* completed, and nothing else is sent.
C2_ProbeLoginTarget ==
    \A t \in Tasks : C2_Case(t) =>
        LET w == wire[t]
            f == Outer(t)
            i == inst[t]
        IN /\ IsProbe(w[1], i)
           /\ Len(w) <= 3
           /\ Len(w) >= 2 => IsLogin(w[2], i)
           /\ Len(w) = 3 => IsTarget(w[3], f, i) /\ w[2].ret.exc = NoException
           /\ f.pc = "done" => Len(w) >= 2
           /\ f.pc = "done" /\ w[2].ret.exc = NoException => Len(w) = 3

C2_Witness ==
    \E t \in Tasks :
        /\ C2_Case(t)
        /\ Finished(t)
        /\ Len(wire[t]) = 3
        /\ wire[t][1].ret.code = 200
        /\ Outer(t).ret.exc = NoException

\* C3: when a login has completed successfully, the held token is the
\* session.sid of the body of its response, whatever was held before.
C3_LoginStoresSid ==
    \A t \in Tasks : \A k \in 1..Len(stack[t]) :
        LET f == stack[t][k] IN
        (f.fn = "call_login" /\ f.pc = "done" /\ f.ret.exc = NoException)
            => sid[inst[t]] = f.answer.body.session.sid

C3_Witness ==
    \E t \in Tasks :
        /\ Finished(t)
        /\ Outer(t).fn = "call_login"
        /\ Outer(t).ret.exc = NoException
        /\ before[t].sid[inst[t]] = "s1"
        /\ sid[inst[t]] = "s2"

C4_Case(t) ==
    /\ Active(t)
    /\ Outer(t).fn \notin {"call_login", "call_authentification_status"}
    /\ Len(wire[t]) >= 1
    /\ wire[t][1].action = "authentification_status"
    /\ wire[t][1].ret.exc = "UnauthorizedException"

\* C4: when the pre-flight probe fails with Unauthorized, the operation does
\* not end with that error: the token is cleared and the next request sent
\* is a login, without a sid header.
C4_ProbeUnauthorizedSwallowed ==
    \A t \in Tasks : C4_Case(t) =>
        LET w == wire[t]
            f == Outer(t)
            i == inst[t]
        IN /\ (Len(w) = 1 /\ Len(stack[t]) = 1) => (f.pc = "login" /\ sid[i] = None)
           /\ (Len(w) = 1 /\ Len(stack[t]) = 2) =>
                \/ Top(t).fn = "call_authentification_status" /\ Top(t).pc = "done"
                \/ Top(t).fn = "call_login" /\ sid[i] = None
           /\ Len(w) >= 2 => IsLogin(w[2], i) /\ "sid" \notin DOMAIN w[2].headers
           /\ f.pc = "done" => Len(w) >= 2

C4_Witness ==
    \E t \in Tasks :
        /\ C4_Case(t)
        /\ Finished(t)
        /\ Len(wire[t]) = 3
        /\ Outer(t).ret.exc = NoException

\* The login run by _request_login for another method has failed.
C5_Case(t, k) ==
    /\ Active(t)
    /\ Outer(t).fn # "call_login"
    /\ wire[t][k].action = "login"
    /\ wire[t][k].ret.exc \notin {"pending", NoException}

\* C5: when the login of the ensure-login step fails, the operation ends
\* with that error, no further request is sent, the caches are as they were
\* and no token is held.
C5_LoginFailureAborts ==
    \A t \in Tasks : \A k \in 1..Len(wire[t]) : C5_Case(t, k) =>
        /\ k = Len(wire[t])
        /\ sid[inst[t]] = None
        /\ OwnCachesUnchanged(t)
        /\ \/ Len(stack[t]) = 2 /\ Top(t).fn = "call_login" /\ Top(t).pc = "done"
              /\ Outer(t).pc = "login_wait"
           \/ Finished(t) /\ Outer(t).ret = wire[t][k].ret

C5_Witness ==
    \E t \in Tasks :
        /\ Len(wire[t]) = 2
        /\ C5_Case(t, 2)
        /\ Finished(t)
        /\ Outer(t).fn = "call_summary"
        /\ Outer(t).ret.exc = "ClientConnectorException"

\* C6 as claimed: a call of authentication_status() never sends a login.
C6_StatusNeverLogsIn ==
    \A t \in Tasks :
        (Active(t) /\ Outer(t).fn = "call_authentification_status")
            => \A k \in 1..Len(wire[t]) : wire[t][k].method # "POST"

\* C6, amended: authentication_status() called with a token held sends only
\* the GET /auth probe; called with no token held it first sends a login,
\* and the probe only after the login has succeeded.  The result of the
\* probe never leads to a login, neither here nor in the pre-flight check.
C6_StatusLogsInOnlyWithoutToken ==
    \A t \in Tasks :
        /\ (Active(t) /\ Outer(t).fn = "call_authentification_status") =>
            LET w == wire[t]
                i == inst[t]
            IN IF before[t].sid[i] # None
               THEN /\ Len(w) <= 1
                    /\ Len(w) = 1 => IsProbe(w[1], i)
                    /\ Outer(t).pc = "done" => Len(w) = 1
               ELSE /\ Len(w) <= 2
                    /\ Len(w) >= 1 => IsLogin(w[1], i)
                    /\ Len(w) = 2 => IsProbe(w[2], i) /\ w[1].ret.exc = NoException
                    /\ Outer(t).pc = "done" => Len(w) >= 1
        /\ \A k \in 2..Len(stack[t]) :
              stack[t][k].fn = "call_authentification_status" => k = Len(stack[t])

C6_Witness ==
    \E t \in Tasks :
        /\ Finished(t)
        /\ Outer(t).fn = "call_authentification_status"
        /\ before[t].sid[inst[t]] = None
        /\ Len(wire[t]) = 2
        /\ Outer(t).ret.exc = NoException

\* The DELETE of a logout() has been answered with a status below 400.
C7_Case(t) ==
    /\ Finished(t)
    /\ Outer(t).fn = "call_logout"
    /\ Len(wire[t]) >= 1
    /\ Last(wire[t]).method = "DELETE"
    /\ Outer(t).answer.err = "none"
    /\ Outer(t).answer.status < 400

\* C7 as claimed: after a logout() whose DELETE is answered with a status
\* below 400 no token is held, whatever the body.
C7_LogoutClearsForAnyBody ==
    \A t \in Tasks : C7_Case(t) => sid[inst[t]] = None

\* C7, amended: after a logout() whose DELETE is answered with a status
\* below 400 and a body that is empty or parses, no token is held, whatever
\* the parsed body says.
C7_LogoutClearsForParsedBody ==
    \A t \in Tasks :
        (C7_Case(t) /\ (Outer(t).answer.text = "" \/ Outer(t).answer.json_ok))
            => sid[inst[t]] = None

C7_Witness ==
    \E t \in Tasks :
        /\ C7_Case(t)
        /\ Outer(t).answer.text # ""
        /\ Outer(t).answer.json_ok
        /\ Outer(t).answer.body = AuthBody(None, TRUE)
        /\ Last(wire[t]).headers = Headers("s1")
        /\ sid[inst[t]] = None

CacheMethods ==
    {"call_summary", "call_padd", "call_blocking_status", "call_blocking_enabled",
     "call_blocking_disabled", "call_get_groups"}

\* The mapping name -> {name, comment, enabled} of a list of groups alone
GroupsOf(groups) ==
    [n \in {groups[k].name : k \in 1..Len(groups)} |->
        LET g == groups[CHOOSE k \in 1..Len(groups) : groups[k].name = n]
        IN GroupEntry(g.name, g.comment, g.enabled)]

\* C8: when a caching operation ends with an error all four caches are as
\* they were before the call; when it succeeds its own cache is the body of
\* the response (for list_groups(), the mapping of the groups of the body).
C8_NoInvalidationOnError ==
    \A t \in Tasks : (Finished(t) /\ Outer(t).fn \in CacheMethods) =>
        LET f == Outer(t)
            i == inst[t]
        IN IF f.ret.exc # NoException THEN OwnCachesUnchanged(t)
           ELSE /\ f.fn = "call_summary" => cache_summary[i] = f.ret.data
                /\ f.fn = "call_padd" => cache_padd[i] = f.ret.data
                /\ f.fn \in {"call_blocking_status", "call_blocking_enabled",
                             "call_blocking_disabled"}
                      => cache_blocking[i] = f.ret.data
                /\ f.fn = "call_get_groups"
                      => self_cache_groups(i) = GroupsOf(f.ret.data.groups)

\* C9: after a successful list_groups() the keys of the groups cache are
\* exactly the names of the groups of the response, each entry copied from
\* it.
C9_GroupsRebuilt ==
    \A t \in Tasks :
        (Finished(t) /\ Outer(t).fn = "call_get_groups"
            /\ Outer(t).ret.exc = NoException) =>
        LET groups == Outer(t).answer.body.groups
            cache == self_cache_groups(inst[t])
        IN /\ DOMAIN cache = {groups[k].name : k \in 1..Len(groups)}
           /\ \A k \in 1..Len(groups) :
                cache[groups[k].name] =
                    GroupEntry(groups[k].name, groups[k].comment, groups[k].enabled)

\* C10: while an operation runs on one instance, the token and the four
\* caches of every other instance stay as they were.
C10_InstancesOwnTheirState ==
    \A t \in Tasks : Active(t) =>
        \A j \in Instances \ {inst[t]} :
            /\ sid[j] = before[t].sid[j]
            /\ cache_blocking[j] = before[t].cache_blocking[j]
            /\ cache_padd[j] = before[t].cache_padd[j]
            /\ cache_summary[j] = before[t].cache_summary[j]
            /\ self_cache_groups(j) = before[t].cache_groups[j]

\* The request task t sends in a step, if it sends one
Sends(t) == Len(wire'[t]) = Len(wire[t]) + 1
Sent(t) == wire'[t][Len(wire'[t])]

\* C11: every request is sent with a sid header if and only if a token is
\* held when it is sent, and the header is then that token; a login sent
\* while no token is held has no sid header.
C11_SidHeaderIffTokenHeld ==
    [][\A t \in Tasks : Sends(t) =>
          LET held == sid[inst[t]] IN
          /\ "sid" \in DOMAIN Sent(t).headers <=> held # None
          /\ held # None => Sent(t).headers.sid = held
          /\ (Sent(t).action = "login" /\ held = None)
                => DOMAIN Sent(t).headers = {"accept", "content_type"}]_vars

C11_Witness ==
    \E t \in Tasks :
        /\ Len(wire[t]) = 2
        /\ IsLogin(wire[t][1], inst[t])
        /\ "sid" \notin DOMAIN wire[t][1].headers
        /\ wire[t][2].action = "summary"
        /\ wire[t][2].headers.sid = "s2"
        /\ sid[inst[t]] = "s2"

\* The outermost method of task t has sent its own request.
OwnRequestSent(t) ==
    /\ Active(t)
    /\ Len(stack[t]) = 1
    /\ Outer(t).pc = "http_wait" \/ Outer(t).answer # NoAnswer

\* C12: blocking_enable() sends the body {blocking: true, timer: null};
\* blocking_disable(d) sends {blocking: false, timer: d}, with timer null
\* for d = None and timer 120 when the argument is omitted.
C12_BlockingBodies ==
    \A t \in Tasks : OwnRequestSent(t) =>
        LET w == Last(wire[t]) IN
        /\ Outer(t).fn = "call_blocking_enabled" =>
              /\ w.method = "POST" /\ w.url = <<url[inst[t]], "/dns/blocking">>
              /\ w.json = [blocking |-> TRUE, timer |-> <<>>]
        /\ Outer(t).fn = "call_blocking_disabled" =>
              /\ w.method = "POST" /\ w.url = <<url[inst[t]], "/dns/blocking">>
              /\ w.json = [blocking |-> FALSE,
                           timer |-> IF args[t].duration_given THEN args[t].duration
                                     ELSE <<120>>]

C12_Witness ==
    \E t \in Tasks :
        /\ OwnRequestSent(t)
        /\ Outer(t).fn = "call_blocking_disabled"
        /\ args[t].duration_given /\ args[t].duration = <<>>
        /\ Last(wire[t]).json = [blocking |-> FALSE, timer |-> <<>>]
        /\ Finished(t)

\* C13: for a group g of the groups cache, group_enable(g) sends PUT
\* /groups/g with the body {name: g, comment, enabled: true} and
\* group_disable(g) the same with enabled: false, the comment being the one
\* the most recent successful list_groups() that listed g gave for g.
C13_GroupBodies ==
    \A t \in Tasks :
        (OwnRequestSent(t) /\ Outer(t).fn \in GroupMethods) =>
            LET w == Last(wire[t])
                g == args[t].group
            IN /\ g \in DOMAIN before[t].cache_groups[inst[t]]
               /\ g \in DOMAIN listed
               /\ w.method = "PUT"
               /\ w.url = <<url[inst[t]], "/groups/", g>>
               /\ w.json = [name |-> g, comment |-> listed[g],
                            enabled |-> (Outer(t).fn = "call_group_enable")]

C13_Witness ==
    \E t \in Tasks :
        /\ Finished(t)
        /\ OwnRequestSent(t)
        /\ Outer(t).fn = "call_group_enable"
        /\ args[t].group = "g1"
        /\ before[t].cache_groups[inst[t]]["g1"] = GroupEntry("g1", "c2", FALSE)
        /\ Last(wire[t]).json = [name |-> "g1", comment |-> "c2", enabled |-> TRUE]
        /\ Outer(t).ret.exc = NoException

\* A group method was called with a name that is no key of the groups cache.
C14_Case(t) ==
    /\ Active(t)
    /\ Outer(t).fn \in GroupMethods
    /\ args[t].group \notin DOMAIN before[t].cache_groups[inst[t]]

\* C14: group_enable(name) and group_disable(name) called with a name that
\* is no key of the groups cache end with a KeyError at once: no request is
\* sent, and the token and the four caches are as they were.
C14_UnknownGroupFailsEarly ==
    \A t \in Tasks : C14_Case(t) =>
        /\ Finished(t)
        /\ Outer(t).ret.exc = "KeyError"
        /\ wire[t] = <<>>
        /\ log[t] = <<>>
        /\ sid = before[t].sid
        /\ OwnCachesUnchanged(t)

C14_Witness ==
    \E t \in Tasks :
        /\ C14_Case(t)
        /\ Outer(t).fn = "call_group_disable"
        /\ args[t].group = "g2"
        /\ "g1" \in DOMAIN self_cache_groups(inst[t])
        /\ sid[inst[t]] = "s1"
        /\ Finished(t)

\* C15: a request that fails in the transport (timeout, connection error,
\* address resolution) makes its _call raise ClientConnector, and the
\* operation ends with that error: nothing is sent after it, and the error
\* is neither caught nor turned into another kind or a result.
C15_TransportFailureIsClientConnector ==
    \A t \in Tasks :
        /\ \A k \in 1..Len(stack[t]) :
              stack[t][k].answer.err \in TransportErrors =>
                /\ k = Len(stack[t])
                /\ stack[t][k].pc = "done"
                /\ stack[t][k].ret = Raise("ClientConnectorException", 0)
                /\ Last(wire[t]).ret = Raise("ClientConnectorException", 0)
        /\ \A k \in 1..Len(wire[t]) :
              wire[t][k].ret.exc = "ClientConnectorException" =>
                /\ k = Len(wire[t])
                /\ Top(t).pc = "done"
                /\ Top(t).ret = Raise("ClientConnectorException", 0)
                /\ Len(stack[t]) = 1 =>
                      Outer(t).answer.err \in TransportErrors \/ Outer(t).answer = NoAnswer

C15_Witness ==
    \E t \in Tasks :
        /\ Finished(t)
        /\ Outer(t).fn = "call_summary"
        /\ before[t].sid[inst[t]] = "s1"
        /\ Len(wire[t]) = 2
        /\ Outer(t).answer.err = "TimeoutError"
        /\ Outer(t).ret.exc = "ClientConnectorException"

StatusKinds == {exception_map[c] : c \in DOMAIN exception_map} \cup {"NotImplementedError"}

\* C16: a response with a status of 400 or more makes _call raise the error
\* of that status, never ContentType, even when its body does not parse;
\* ContentType is raised exactly for a status below 400 with a non-empty
\* body that does not parse, and an empty body gives an empty mapping (in
\* which call_login and call_get_groups then miss their key).
C16_StatusBeforeParsing ==
    \A t \in Tasks : \A k \in 1..Len(stack[t]) :
        LET f == stack[t][k]
            a == f.answer
        IN a.err = "none" =>
            /\ a.status >= 400 =>
                  /\ f.ret.exc \in StatusKinds
                  /\ f.ret.exc = handle_status(a.status).exc
                  /\ f.ret.code = handle_status(a.status).code
                  /\ f.ret.data = EmptyMap
            /\ f.ret.exc = "ContentTypeException" <=>
                  (a.status < 400 /\ a.text # "" /\ ~a.json_ok)
            /\ (a.status < 400 /\ a.text = "") =>
                  IF f.fn \in {"call_login", "call_get_groups"}
                  THEN f.ret = Raise("KeyError", 0)
                  ELSE f.ret = [exc |-> NoException, code |-> a.status,
                                reason |-> a.reason, data |-> EmptyMap]

C16_Witness ==
    \E t \in Tasks :
        /\ Finished(t)
        /\ Outer(t).answer.err = "none"
        /\ Outer(t).answer.status = 403
        /\ Outer(t).answer.text # ""
        /\ ~Outer(t).answer.json_ok
        /\ Outer(t).ret.exc = "ForbiddenException"

IsHashEntry(e) == e.msg = "Session ID Hash: %s"
HashEntries(l) == SelectSeq(l, IsHashEntry)

\* C17: the log never holds a raw session token.  Each request logs one
\* session entry, the digest of the token held when it is sent or the null
\* marker when none is held; no entry is a copy of a response body, so the
\* sid of a login response appears nowhere in the log, while the body the
\* login returns to its caller has the real sid.
C17_NoRawTokenInLog ==
    \A t \in Tasks :
        /\ \A k \in 1..Len(log[t]) :
              /\ log[t][k].msg \in
                    {"Session ID Hash: %s", "Request: %s %s", "Status Code: %d"}
              /\ \A j \in 1..Len(log[t][k].args) : log[t][k].args[j] \notin Sids
        /\ Len(HashEntries(log[t])) = Len(wire[t])
        /\ \A k \in 1..Len(wire[t]) :
              LET h == wire[t][k].headers IN
              HashEntries(log[t])[k].args =
                  IF "sid" \in DOMAIN h
                  THEN <<IF h.sid = "s1" THEN "digest1" ELSE "digest2">>
                  ELSE <<None>>
        /\ \A k \in 1..Len(wire[t]) :
              (wire[t][k].action = "login" /\ wire[t][k].ret.exc = NoException)
                  => wire[t][k].ret.data.session.sid \in Sids
        /\ \A k \in 1..Len(stack[t]) :
              LET f == stack[t][k] IN
              (f.fn = "call_login" /\ f.pc = "done" /\ f.ret.exc = NoException)
                  => /\ f.ret.data = f.answer.body
                     /\ result_data_debug(f.answer.body, f.action) =
                            AuthBody("[redacted]", f.answer.body.session.valid)

C17_Witness ==
    \E t \in Tasks :
        /\ Len(wire[t]) = 2
        /\ IsLogin(wire[t][1], inst[t])
        /\ wire[t][1].ret.data = AuthBody("s1", TRUE)
        /\ Len(log[t]) >= 5
        /\ log[t][1] = LogEntry("Session ID Hash: %s", <<None>>)
        /\ log[t][3] = LogEntry("Status Code: %d", <<"200">>)
        /\ log[t][4] = LogEntry("Session ID Hash: %s", <<"digest1">>)

Failed(w) == w.ret.exc \notin {"pending", NoException}

\* What one operation sends and how deep it calls: at most a probe, a login
\* and its own request, each once and in this order; nothing after a failed
\* request other than the login after a probe answered Unauthorized; the
\* probe and the login run by _call run no probe and no login themselves.
C18_Bounded ==
    \A t \in Tasks :
        /\ Len(wire[t]) <= 3
        /\ \A j, k \in 1..Len(wire[t]) : j < k =>
              /\ wire[t][j].action # wire[t][k].action
              /\ wire[t][j].action \in {"authentification_status", "login"}
              /\ wire[t][k].action = "authentification_status" => Len(wire[t]) = 2
              /\ Failed(wire[t][j]) =>
                    /\ wire[t][j].action = "authentification_status"
                    /\ wire[t][j].ret.exc = "UnauthorizedException"
                    /\ wire[t][j + 1].action = "login"
        /\ Len(stack[t]) <= 2
        /\ Len(stack[t]) = 2 =>
              /\ Outer(t).pc \in {"probe_wait", "login_wait"}
              /\ Top(t).pc \in {"check", "login", "dispatch", "http_wait", "done"}
              /\ Outer(t).pc = "probe_wait" => Top(t).fn = "call_authentification_status"
              /\ Outer(t).pc = "login_wait" => Top(t).fn = "call_login"

\* C18: every operation ends, having sent at most one probe, one login and
\* one request of its own, each once; a failed request is not sent again
\* and the probe and login steps do not recurse.  (The caller makes finitely
\* many calls, so every operation ends exactly when from some point on none
\* is running.)
C18_TerminatesWithoutRetry ==
    /\ []C18_Bounded
    /\ <>[](\A t \in Tasks : Idle(t))

C18_Witness ==
    \E t \in Tasks :
        /\ Finished(t)
        /\ Len(wire[t]) = 3
        /\ wire[t][1].ret.exc = "UnauthorizedException"
        /\ wire[t][2].ret.exc = NoException
        /\ Failed(wire[t][3])

\* The wire of task u holds a login that has succeeded.
LoginDone(u) ==
    \E k \in 1..Len(wire[u]) :
        wire[u][k].action = "login" /\ wire[u][k].ret.exc = NoException

\* Two operations run on one client, both have sent a login, the one of u
\* has succeeded before and the one of t succeeds now.
C19_Case(t, u) ==
    /\ t # u
    /\ Active(t) /\ Active(u)
    /\ inst[t] = inst[u]
    /\ LoginDone(u)
    /\ Top(t).fn = "call_login" /\ Top(t).pc = "done"
    /\ Top(t).ret.exc = NoException

\* C19: nothing excludes two concurrent operations on a client without a
\* token from both logging in; whenever a second login succeeds after
\* another task's, the token held is the one of the login that succeeded
\* last.
C19_LastLoginWins ==
    \A t, u \in Tasks : C19_Case(t, u) =>
        sid[inst[t]] = Top(t).answer.body.session.sid

C19_Witness ==
    \E t, u \in Tasks :
        /\ C19_Case(t, u)
        /\ Outer(t).fn = "call_summary" /\ Outer(u).fn = "call_summary"
        /\ before[t].sid[inst[t]] = None /\ before[u].sid[inst[u]] = None
        /\ IsLogin(wire[t][1], inst[t]) /\ IsLogin(wire[u][1], inst[u])
        /\ "sid" \notin DOMAIN wire[t][1].headers
        /\ "sid" \notin DOMAIN wire[u][1].headers
        /\ wire[u][1].ret.data.session.sid = "s1"
        /\ sid[inst[t]] = "s2"

\* The operation's own request has been answered with 401.
C20_Case(t) ==
    /\ Finished(t)
    /\ Outer(t).answer.err = "none"
    /\ Outer(t).answer.status = 401

\* The token a request was sent with
TokenSent(w) == IF "sid" \in DOMAIN w.headers THEN w.headers.sid ELSE None

\* C20 as claimed: after an operation whose own request is answered with
\* 401 no token is held.
C20_UnauthorizedClearsToken ==
    \A t \in Tasks : C20_Case(t) => sid[inst[t]] = None

\* C20, amended: only the 401 of the pre-flight probe clears the token.  An
\* operation whose own request is answered with 401 ends with Unauthorized
\* and the token it sent that request with is still held.
C20_OnlyProbeUnauthorizedClears ==
    \A t \in Tasks :
        /\ C20_Case(t) =>
              /\ Outer(t).ret.exc = "UnauthorizedException"
              /\ sid[inst[t]] = TokenSent(Last(wire[t]))
        /\ (C4_Case(t) /\ Len(wire[t]) = 1 /\ Len(stack[t]) = 1) =>
              sid[inst[t]] = None

C20_Witness ==
    \E t \in Tasks :
        /\ C20_Case(t)
        /\ Outer(t).fn = "call_summary"
        /\ Len(wire[t]) = 2
        /\ IsProbe(wire[t][1], inst[t])
        /\ Last(wire[t]).headers.sid = "s1"
        /\ sid[inst[t]] = "s1"

\* The pre-flight probe of an operation has failed with an error other
\* than Unauthorized.
C21_Case(t) ==
    /\ Active(t)
    /\ Outer(t).fn \notin {"call_login", "call_authentification_status"}
    /\ Len(wire[t]) >= 1
    /\ wire[t][1].action = "authentification_status"
    /\ Failed(wire[t][1])
    /\ wire[t][1].ret.exc # "UnauthorizedException"

\* C21: when the pre-flight probe fails with an error other than
\* Unauthorized, the operation ends with that error: no login and no target
\* request is sent, and the token and the caches are as they were.
C21_ProbeErrorPropagates ==
    \A t \in Tasks : C21_Case(t) =>
        /\ Len(wire[t]) = 1
        /\ IsProbe(wire[t][1], inst[t])
        /\ sid = before[t].sid
        /\ OwnCachesUnchanged(t)
        /\ Top(t).pc = "done"
        /\ Top(t).ret = wire[t][1].ret
        /\ Len(stack[t]) = 1 => Outer(t).answer = NoAnswer

C21_Witness ==
    \E t \in Tasks :
        /\ C21_Case(t)
        /\ Finished(t)
        /\ Outer(t).fn = "call_summary"
        /\ Outer(t).ret.exc = "ClientConnectorException"
        /\ sid[inst[t]] = "s1"

\* The pre-flight probe of t has ended with a result that clears the token:
\* Unauthorized, a status other than 200, or an invalid session.
ProbeClears(t) ==
    /\ Active(t)
    /\ Outer(t).fn \notin {"call_login", "call_authentification_status"}
    /\ Len(wire[t]) >= 1
    /\ wire[t][1].action = "authentification_status"
    /\ ProbeSaidInvalid(wire[t][1]) \/ wire[t][1].ret.exc = "UnauthorizedException"

\* C22: the result of a pre-flight probe clears the token held when the
\* result is processed, also when another task has logged in and stored a
\* fresh token since the probe was sent; the task then logs in once more.
C22_LateProbeClearsFreshToken ==
    \A t \in Tasks : ProbeClears(t) =>
        /\ (Len(stack[t]) = 1 /\ Len(wire[t]) = 1) =>
              (Outer(t).pc = "login" /\ sid[inst[t]] = None)
        /\ Len(wire[t]) >= 2 =>
              (IsLogin(wire[t][2], inst[t]) /\ TokenSent(wire[t][2]) = None)

C22_Witness ==
    \E t, u \in Tasks :
        /\ t # u /\ inst[t] = inst[u]
        /\ ProbeClears(t)
        /\ TokenSent(wire[t][1]) = "s1"
        /\ Len(wire[t]) = 2 /\ wire[t][2].ret.exc = "pending"
        /\ Active(u) /\ Len(wire[u]) >= 2
        /\ \E k \in 1..(Len(wire[u]) - 1) :
              /\ wire[u][k].action = "login"
              /\ wire[u][k].ret.exc = NoException
              /\ wire[u][k].ret.data.session.sid = "s2"
        /\ Last(wire[u]).action = "summary"
        /\ TokenSent(Last(wire[u])) = "s2"
        /\ Last(wire[u]).ret.exc = "pending"
        /\ sid[inst[t]] = None

\* C24: under every interleaving of the tasks of one client, every request
\* other than a login is sent with a sid header holding a token: the token
\* is tested after the probe has returned, and the task is not suspended
\* between that test (or the login it leads to) and the sending.
C24_NonLoginCarriesToken ==
    \A t \in Tasks : \A k \in 1..Len(wire[t]) :
        wire[t][k].action # "login" =>
            /\ "sid" \in DOMAIN wire[t][k].headers
            /\ wire[t][k].headers.sid \in Sids
            /\ k >= 2 /\ wire[t][k - 1].action = "login" =>
                  /\ wire[t][k - 1].ret.exc = NoException
                  /\ wire[t][k].headers.sid = wire[t][k - 1].ret.data.session.sid

C24_Witness ==
    \E t \in Tasks :
        /\ Len(wire[t]) = 3
        /\ IsProbe(wire[t][1], inst[t])
        /\ wire[t][1].ret = [exc |-> NoException, code |-> 200, reason |-> "reason",
                              data |-> AuthBody(None, TRUE)]
        /\ TokenSent(wire[t][1]) = "s1"
        /\ IsLogin(wire[t][2], inst[t])
        /\ TokenSent(wire[t][2]) = None
        /\ wire[t][3].action = "summary"
        /\ TokenSent(wire[t][3]) = "s2"

BlockingMethods ==
    {"call_blocking_status", "call_blocking_enabled", "call_blocking_disabled"}

\* C23: an operation changes no cache other than its own: summary() only
\* the summary cache, padd() only the padd cache, the three blocking
\* operations only the blocking cache, list_groups() only the groups cache;
\* login(), logout() and authentication_status() change none, nor do the
\* probe and the login run inside another operation.
C23_CachesIndependent ==
    \A t \in Tasks : Active(t) =>
        LET i == inst[t]
            fn == Outer(t).fn
        IN /\ fn # "call_summary" => cache_summary[i] = before[t].cache_summary[i]
           /\ fn # "call_padd" => cache_padd[i] = before[t].cache_padd[i]
           /\ fn \notin BlockingMethods =>
                 cache_blocking[i] = before[t].cache_blocking[i]
           /\ fn # "call_get_groups" =>
                 self_cache_groups(i) = before[t].cache_groups[i]
           /\ ~OwnRequestSent(t) => OwnCachesUnchanged(t)

C23_Witness ==
    \E t \in Tasks :
        /\ Finished(t)
        /\ Outer(t).fn = "call_padd"
        /\ Len(wire[t]) = 3
        /\ Outer(t).ret.exc = NoException
        /\ before[t].cache_padd[inst[t]] = EmptyMap
        /\ cache_padd[inst[t]] = PayloadBody("p1")
        /\ cache_summary[inst[t]] = PayloadBody("p1")
        /\ cache_blocking[inst[t]] = EmptyMap
        /\ self_cache_groups(inst[t]) # EmptyMap

\* logout() runs with no token held when it reaches the ensure-login step:
\* none was held when it was called, or the probe has cleared it.
C25_Case(t) ==
    /\ Active(t)
    /\ Outer(t).fn = "call_logout"
    /\ before[t].sid[inst[t]] = None \/ ProbeClears(t)

\* The login of a logout() in that case: the first request, or the one
\* after the probe
C25_LoginAt(t) == IF before[t].sid[inst[t]] = None THEN 1 ELSE 2

\* C25: logout() called with no token held, or with a token its probe finds
\* invalid, logs in first and sends DELETE /auth only after the login has
\* succeeded, with the token the login returned; when the logout returns,
\* no token is held.
C25_LogoutLogsInFirst ==
    \A t \in Tasks : C25_Case(t) =>
        LET w == wire[t]
            n == C25_LoginAt(t)
            i == inst[t]
        IN /\ Len(w) <= n + 1
           /\ Len(w) >= n => IsLogin(w[n], i)
           /\ Len(w) = n + 1 =>
                 /\ w[n].ret.exc = NoException
                 /\ w[n + 1].method = "DELETE"
                 /\ w[n + 1].url = <<url[i], "/auth">>
                 /\ TokenSent(w[n + 1]) = w[n].ret.data.session.sid
                 /\ TokenSent(w[n + 1]) \in Sids
           /\ Finished(t) => Len(w) >= n
           /\ (Finished(t) /\ w[n].ret.exc = NoException) => Len(w) = n + 1
           /\ (Finished(t) /\ Outer(t).ret.exc = NoException) =>
                 (Len(w) = n + 1 /\ sid[i] = None)

C25_Witness ==
    \E t \in Tasks :
        /\ C25_Case(t)
        /\ Finished(t)
        /\ before[t].sid[inst[t]] = "s1"
        /\ Len(wire[t]) = 3
        /\ TokenSent(wire[t][1]) = "s1"
        /\ TokenSent(wire[t][3]) = "s2"
        /\ Outer(t).ret.exc = NoException
        /\ sid[inst[t]] = None

\* C26: group_enable(name) and group_disable(name) leave the groups cache as
\* it was when they were called, at every step and however they end; after a
\* successful call the cached entry of the group still has the 'enabled'
\* value it had before, whatever flag the request carried.
C26_GroupCallsKeepCache ==
    \A t \in Tasks :
        (Active(t) /\ Outer(t).fn \in GroupMethods) =>
            LET i == inst[t]
                g == args[t].group
            IN /\ self_cache_groups(i) = before[t].cache_groups[i]
               /\ (Finished(t) /\ Outer(t).ret.exc = NoException) =>
                     /\ g \in DOMAIN self_cache_groups(i)
                     /\ self_cache_groups(i)[g].enabled
                            = before[t].cache_groups[i][g].enabled

C26_Witness ==
    \E t \in Tasks :
        /\ Finished(t)
        /\ Outer(t).fn = "call_group_disable"
        /\ args[t].group = "g1"
        /\ Outer(t).ret.exc = NoException
        /\ Last(wire[t]).method = "PUT"
        /\ Last(wire[t]).json.enabled = FALSE
        /\ self_cache_groups(inst[t])["g1"].enabled = TRUE

\* The unique ID prefix/part
Joined(prefix, part) == prefix \o <<Slash>> \o part

\* The unique ID has two '/'-separated parts
TwoParts(id) == Len(split(id, Slash)) = 2

\* C27: for every unique ID prefix/part, a pass rewrites it only when part
\* is exactly one of the names of the table, the rewritten ID is prefix/key
\* with the key the table maps part to, and a pass over an ID already
\* migrated, or over an ID that has not two '/'-separated parts, returns no
\* change.
C27_MigrationExactAndIdempotent ==
    \A k \in 1..Len(returned) :
        LET parts == split(original, Slash) IN
        /\ returned[k].update =>
              /\ TwoParts(original)
              /\ InTable(parts[2])
              /\ returned[k].new_unique_id
                    = Joined(parts[1], <<name_to_key[parts[2][1]]>>)
        /\ (k > 1 /\ returned[1].update) => ~returned[k].update
        /\ ~TwoParts(original) => ~returned[k].update

\* The same with "the name's text replaced wherever the ID has it" in the
\* place of "prefix/key": what the migration does for every ID.
C27_ReplacesEveryOccurrence ==
    \A k \in 1..Len(returned) :
        LET parts == split(original, Slash) IN
        /\ returned[k].update <=>
              (k = 1 /\ TwoParts(original) /\ InTable(parts[2]))
        /\ returned[k].update =>
              /\ returned[k].new_unique_id
                    = replace(original, parts[2], <<name_to_key[parts[2][1]]>>)
              /\ (\A j \in 1..Len(parts[1]) : <<parts[1][j]>> # parts[2])
                    => returned[k].new_unique_id
                         = Joined(parts[1], <<name_to_key[parts[2][1]]>>)
        /\ unique_id = IF returned[1].update THEN returned[1].new_unique_id
                       ELSE original

\* An ID with a plain prefix migrated by the first pass and left alone by
\* the second
C27_Witness ==
    /\ original = <<"x", Slash, "Status">>
    /\ Len(returned) = 2
    /\ returned[1] = Update(<<"x", Slash, "status">>)
    /\ returned[2] = NoUpdate
    /\ unique_id = <<"x", Slash, "status">>

=============================================================================
